---- MODULE Spec2Model ----
(***************************************************************************)
(* The timetable assignment engine of src/Thesis/src/app.py:               *)
(* MainWindow._generate_schedule and the helpers it calls                  *)
(* (_build_professor_slots, _next_available_professor_slot, _assign_room,  *)
(* _suggest_identifier).                                                   *)
(*                                                                         *)
(* Strings that the code only compares for equality (professor ids, room   *)
(* numbers, subject codes, day names, format tags) are TLA+ strings.       *)
(* Strings that the code formats, parses or orders (schedule identifiers,  *)
(* "HH:MM" time labels) are sequences of one-character strings, so that    *)
(* formatting, pattern matching and string order are computed.             *)
(***************************************************************************)
EXTENDS Integers, Sequences, FiniteSets, TLC

VARIABLES
    professors,        \* self.professors: sequence of Professor records
    rooms,             \* self.rooms: sequence of Room records
    subjects,          \* self.subjects: sequence of Subject records
    schedule_entries,  \* self.schedule_entries: sequence of ScheduleEntry records
    today,             \* the date datetime.today() returns
    pc,                \* position of _generate_schedule: idle, loop, done, failed
    failure,           \* which validation error ended the run ("" if none)
    eligible_subjects, \* local eligible_subjects (sequence of Subject records)
    skipped_no_prof,   \* local skipped_no_prof
    taken_schedule_ids,\* local taken_schedule_ids
    used_prof_slots,   \* local used_prof_slots
    used_room_slots,   \* local used_room_slots
    new_entries,       \* local new_entries
    skipped_no_slot,   \* local skipped_no_slot
    skipped_no_room,   \* local skipped_no_room
    idx,               \* position of the loop over eligible_subjects (1-based)
    previous,          \* history: self.schedule_entries when the run started
    log,               \* history: one record per subject the loop has processed
    loaded,            \* history: the schedule list as first loaded
    runNo,             \* history: 1 for the first run, 2 for the repeated run
    out1,              \* history: the outcome of the first run
    call,              \* one call of a helper on its own: arguments and result
    reordered          \* history: a sort of self.subjects has changed its order

vars == <<professors, rooms, subjects, schedule_entries, today, pc, failure,
          eligible_subjects, skipped_no_prof, taken_schedule_ids,
          used_prof_slots, used_room_slots, new_entries, skipped_no_slot,
          skipped_no_room, idx, previous, log, loaded, runNo, out1, call,
          reordered>>

inputs == <<professors, rooms, subjects>>

-----------------------------------------------------------------------------
(* Bounds of the model *)

MaxSubjects == 3

\* the number of subjects in the runs that exhaust a professor's week
MaxLoad == 6

\* the length of the identifier collections handed to the allocator on its own
MaxExisting == 2

-----------------------------------------------------------------------------
(* Characters and string order *)

DigitChars == <<"0", "1", "2", "3", "4", "5", "6", "7", "8", "9">>

IsDigitChar(c) == \E k \in 1..10 : DigitChars[k] = c

DigitValue(c) == (CHOOSE k \in 1..10 : DigitChars[k] = c) - 1

\* Code points of the characters that occur in identifiers and time labels.
CharOrd(c) ==
    CASE c = ":" -> 58
      [] c = "C" -> 67
      [] c = "H" -> 72
      [] c = "N" -> 78
      [] c = "S" -> 83
      [] c = "X" -> 88
      [] OTHER   -> 48 + DigitValue(c)

\* Python's str < str on character sequences.
RECURSIVE StrLess(_, _)
StrLess(a, b) ==
    IF b = <<>> THEN FALSE
    ELSE IF a = <<>> THEN TRUE
    ELSE IF Head(a) = Head(b) THEN StrLess(Tail(a), Tail(b))
    ELSE CharOrd(Head(a)) < CharOrd(Head(b))

\* Python's order on the format tags and room numbers of the model
\* (ASCII order: "" < "Lecture" < "R1" < ... < "Seminar" < "Unspecified").
NameOrder == <<"", "Lecture", "R1", "R2", "R3", "R4", "R5", "Seminar", "Unspecified">>

NameRank(s) == CHOOSE k \in 1..Len(NameOrder) : NameOrder[k] = s

NameLess(a, b) == NameRank(a) < NameRank(b)

-----------------------------------------------------------------------------
(* _suggest_identifier: pattern, parsing and formatting *)

RECURSIVE ParseInt(_)
\* int(match.group(1)) on a sequence of digit characters
ParseInt(ds) ==
    IF ds = <<>> THEN 0
    ELSE 10 * ParseInt(SubSeq(ds, 1, Len(ds) - 1)) + DigitValue(ds[Len(ds)])

RECURSIVE DigitsOf(_)
\* the decimal digits of n >= 0, without padding
DigitsOf(n) ==
    IF n < 10 THEN <<DigitChars[n + 1]>>
    ELSE Append(DigitsOf(n \div 10), DigitChars[(n % 10) + 1])

RECURSIVE ZeroPad(_, _)
\* f"{n:0{digits}d}": pads to AT LEAST `digits` characters, never truncates
ZeroPad(ds, digits) ==
    IF Len(ds) >= digits THEN ds ELSE ZeroPad(<<"0">> \o ds, digits)

FormatNumber(n, digits) == ZeroPad(DigitsOf(n), digits)

\* a variant whose pattern is rf"{prefix}(\d+)$": digits of any number
PatternMatchesAnyWidth(value, prefix, digits) ==
    /\ Len(value) > Len(prefix)
    /\ SubSeq(value, 1, Len(prefix)) = prefix
    /\ \A k \in (Len(prefix) + 1)..Len(value) : IsDigitChar(value[k])

\* pattern.match(value) for rf"{prefix}(\d{digits})$": the prefix, then exactly
\* `digits` digits, then the end of the string
PatternMatches(value, prefix, digits) ==
    /\ Len(value) = Len(prefix) + digits
    /\ SubSeq(value, 1, Len(prefix)) = prefix
    /\ \A k \in (Len(prefix) + 1)..Len(value) : IsDigitChar(value[k])

MatchedNumber(value, prefix) == ParseInt(SubSeq(value, Len(prefix) + 1, Len(value)))

SetMax(S) == IF S = {} THEN 0 ELSE CHOOSE m \in S : \A x \in S : x <= m

SuggestIdentifier(existing, prefix, digits) ==
    LET numbers == { MatchedNumber(existing[k], prefix) :
                       k \in { j \in DOMAIN existing :
                                 PatternMatches(existing[j], prefix, digits) } }
        next_number == SetMax(numbers) + 1
    IN  prefix \o FormatNumber(next_number, digits)

SchedulePrefix == <<"S", "C", "H">>

ScheduleDigits == 3

\* the identifier "SCH" followed by n, as the allocator would print it
SCH(n) == SchedulePrefix \o FormatNumber(n, ScheduleDigits)

-----------------------------------------------------------------------------
(* _build_professor_slots and _next_available_professor_slot *)

Days == <<"Monday", "Tuesday", "Wednesday", "Thursday", "Friday">>

MinutesPerDay == 1440

StepMinutes == 60

\* strftime("%H:%M") of a datetime given in minutes since day 0
Strftime(dt) ==
    LET m == dt % MinutesPerDay
        h == m \div 60
        mi == m % 60
    IN  <<DigitChars[(h \div 10) + 1], DigitChars[(h % 10) + 1], ":",
          DigitChars[(mi \div 10) + 1], DigitChars[(mi % 10) + 1]>>

\* datetime.combine(base_date, t) in minutes since day 0
Combine(base_date, t) == base_date * MinutesPerDay + t

RECURSIVE HourBlocksStrict(_, _, _)
\* a variant whose loop test is current + step < end_dt
HourBlocksStrict(day, current, end_dt) ==
    IF current + StepMinutes < end_dt
    THEN <<<<day, Strftime(current)>>>> \o HourBlocksStrict(day, current + StepMinutes, end_dt)
    ELSE <<>>

RECURSIVE HourBlocks(_, _, _)
\* the inner while loop: one label per whole block [current, current + step]
HourBlocks(day, current, end_dt) ==
    IF current + StepMinutes <= end_dt
    THEN <<<<day, Strftime(current)>>>> \o HourBlocks(day, current + StepMinutes, end_dt)
    ELSE <<>>

RECURSIVE SlotsOfDays(_, _, _)
SlotsOfDays(days, start_dt, end_dt) ==
    IF days = <<>> THEN <<>>
    ELSE HourBlocks(Head(days), start_dt, end_dt) \o SlotsOfDays(Tail(days), start_dt, end_dt)

\* a variant whose week starts at the weekday of base_date
BuildProfessorSlotsFromToday(professor, base_date) ==
    LET start_dt == Combine(base_date, professor.office_start)
        end_dt == Combine(base_date, professor.office_end)
        shift == base_date % Len(Days)
        days == SubSeq(Days, shift + 1, Len(Days)) \o SubSeq(Days, 1, shift)
    IN  IF start_dt >= end_dt THEN <<>> ELSE SlotsOfDays(days, start_dt, end_dt)

BuildProfessorSlots(professor, base_date) ==
    LET start_dt == Combine(base_date, professor.office_start)
        end_dt == Combine(base_date, professor.office_end)
    IN  IF start_dt >= end_dt THEN <<>> ELSE SlotsOfDays(Days, start_dt, end_dt)

NoSlot == <<>>

\* a variant that looks at the first slot of the sequence only
NextAvailableProfessorSlotHeadOnly(professor_id, slots, used) ==
    IF slots = <<>> THEN NoSlot
    ELSE IF <<professor_id, Head(slots)[1], Head(slots)[2]>> \notin used THEN Head(slots)
    ELSE NoSlot

RECURSIVE NextAvailableProfessorSlotFromEnd(_, _, _)
\* a variant that walks the sequence from its end
NextAvailableProfessorSlotFromEnd(professor_id, slots, used) ==
    IF slots = <<>> THEN NoSlot
    ELSE IF <<professor_id, slots[Len(slots)][1], slots[Len(slots)][2]>> \notin used
         THEN slots[Len(slots)]
    ELSE NextAvailableProfessorSlotFromEnd(professor_id, SubSeq(slots, 1, Len(slots) - 1), used)

RECURSIVE NextAvailableProfessorSlot(_, _, _)
NextAvailableProfessorSlot(professor_id, slots, used) ==
    IF slots = <<>> THEN NoSlot
    ELSE IF <<professor_id, Head(slots)[1], Head(slots)[2]>> \notin used THEN Head(slots)
    ELSE NextAvailableProfessorSlot(professor_id, Tail(slots), used)

SeqToSet(s) == { s[k] : k \in DOMAIN s }

-----------------------------------------------------------------------------
(* The room index: rooms_by_type *)

\* a variant that forgets the capacity: key=lambda r: (r.lec_sem, r.number)
RoomKeyLessByNumber(a, b) ==
    \/ NameLess(a.lec_sem, b.lec_sem)
    \/ a.lec_sem = b.lec_sem /\ NameLess(a.number, b.number)

\* key=lambda r: (r.lec_sem, r.capacity, r.number)
RoomKeyLess(a, b) ==
    \/ NameLess(a.lec_sem, b.lec_sem)
    \/ /\ a.lec_sem = b.lec_sem
       /\ \/ a.capacity < b.capacity
          \/ a.capacity = b.capacity /\ NameLess(a.number, b.number)

RECURSIVE InsertRoom(_, _)
\* sorted() is stable: x goes before the first element that is strictly greater
InsertRoom(s, x) ==
    IF s = <<>> THEN <<x>>
    ELSE IF RoomKeyLess(x, Head(s)) THEN <<x>> \o s
    ELSE <<Head(s)>> \o InsertRoom(Tail(s), x)

RECURSIVE SortRooms(_)
\* sorted(self.rooms, key=...)
SortRooms(s) ==
    IF s = <<>> THEN <<>>
    ELSE InsertRoom(SortRooms(SubSeq(s, 1, Len(s) - 1)), s[Len(s)])

\* room.lec_sem or "Unspecified"
TypeKey(room) == IF room.lec_sem = "" THEN "Unspecified" ELSE room.lec_sem

\* rooms_by_type.setdefault(key, []).append(room)
AppendToGroup(index, key, room) ==
    IF \E g \in DOMAIN index : index[g].key = key
    THEN [g \in DOMAIN index |->
            IF index[g].key = key
            THEN [key |-> key, rooms |-> Append(index[g].rooms, room)]
            ELSE index[g]]
    ELSE Append(index, [key |-> key, rooms |-> <<room>>])

RECURSIVE GroupRooms(_, _)
GroupRooms(sorted_rooms, index) ==
    IF sorted_rooms = <<>> THEN index
    ELSE GroupRooms(Tail(sorted_rooms),
                    AppendToGroup(index, TypeKey(Head(sorted_rooms)), Head(sorted_rooms)))

\* a sequence of [key, rooms] in the dict's insertion order
RoomsByType(room_list) == GroupRooms(SortRooms(room_list), <<>>)

\* rooms_by_type.get(room_type, [])
RoomsOfType(rooms_by_type, room_type) ==
    IF \E g \in DOMAIN rooms_by_type : rooms_by_type[g].key = room_type
    THEN rooms_by_type[CHOOSE g \in DOMAIN rooms_by_type :
                          rooms_by_type[g].key = room_type].rooms
    ELSE <<>>

-----------------------------------------------------------------------------
(* _assign_room *)

RECURSIVE FilterCapacity(_, _)
\* [room for room in rooms if room.capacity >= required_capacity]
FilterCapacity(room_seq, required_capacity) ==
    IF room_seq = <<>> THEN <<>>
    ELSE IF Head(room_seq).capacity >= required_capacity
         THEN <<Head(room_seq)>> \o FilterCapacity(Tail(room_seq), required_capacity)
         ELSE FilterCapacity(Tail(room_seq), required_capacity)

RECURSIVE FirstFreeRoom(_, _, _, _)
\* the first room of the sequence whose (number, day, time) is not used; "" if none
FirstFreeRoom(room_seq, day, time, used_slots) ==
    IF room_seq = <<>> THEN ""
    ELSE IF <<Head(room_seq).number, day, time>> \in used_slots
         THEN FirstFreeRoom(Tail(room_seq), day, time, used_slots)
         ELSE Head(room_seq).number

\* a variant that tries the keys of the index in their own order only
CandidateTypesIndexOrder(preferred_type, rooms_by_type) ==
    [g \in DOMAIN rooms_by_type |-> rooms_by_type[g].key]

\* candidate_types: the preferred type (if any), then the other keys of the index
CandidateTypes(preferred_type, rooms_by_type) ==
    LET keys == [g \in DOMAIN rooms_by_type |-> rooms_by_type[g].key]
    IN  IF preferred_type = "" THEN keys
        ELSE <<preferred_type>> \o SelectSeq(keys, LAMBDA k : k # preferred_type)

\* the rooms tried for one candidate type
SuitableRooms(room_seq, required_capacity) ==
    LET suitable == FilterCapacity(room_seq, required_capacity)
    IN  IF suitable = <<>> THEN room_seq ELSE suitable

RECURSIVE PickByType(_, _, _, _, _, _)
\* the loop over candidate_types: the first type that yields a free room
PickByType(types, rooms_by_type, required_capacity, day, time, used_slots) ==
    IF types = <<>> THEN ""
    ELSE LET room_seq == RoomsOfType(rooms_by_type, Head(types))
             pick == FirstFreeRoom(SuitableRooms(room_seq, required_capacity),
                                   day, time, used_slots)
         IN  IF room_seq # <<>> /\ pick # "" THEN pick
             ELSE PickByType(Tail(types), rooms_by_type, required_capacity,
                             day, time, used_slots)

RECURSIVE PickAny(_, _, _, _)
\* the last loop: every room of the index, in the index's order
PickAny(rooms_by_type, day, time, used_slots) ==
    IF rooms_by_type = <<>> THEN ""
    ELSE LET pick == FirstFreeRoom(Head(rooms_by_type).rooms, day, time, used_slots)
         IN  IF pick # "" THEN pick
             ELSE PickAny(Tail(rooms_by_type), day, time, used_slots)

\* subjects_by_code.get(entry.subject_code): the last subject with that code
SubjectByCode(subject_list, code) ==
    subject_list[CHOOSE k \in DOMAIN subject_list :
                    /\ subject_list[k].code = code
                    /\ \A j \in DOMAIN subject_list :
                          subject_list[j].code = code => j <= k]

HasSubject(subject_list, code) == \E k \in DOMAIN subject_list : subject_list[k].code = code

\* a variant without lines 1217-1220: the previous room is not tried first
AssignRoomWithoutKeep(entry, day, time, subject_list, rooms_by_type, used_slots) ==
    LET known == HasSubject(subject_list, entry.subject_code)
        subject == SubjectByCode(subject_list, entry.subject_code)
        preferred_type == IF known THEN subject.format_ ELSE ""
        required_capacity == IF known THEN subject.capacity ELSE 0
        by_type == PickByType(CandidateTypes(preferred_type, rooms_by_type),
                              rooms_by_type, required_capacity, day, time, used_slots)
        any == PickAny(rooms_by_type, day, time, used_slots)
    IN  IF by_type # ""
        THEN [room_number |-> by_type,
              used_slots |-> used_slots \cup {<<by_type, day, time>>}]
        ELSE IF any # ""
        THEN [room_number |-> any,
              used_slots |-> used_slots \cup {<<any, day, time>>}]
        ELSE [room_number |-> entry.room_number, used_slots |-> used_slots]

\* a variant without line 1219: a kept previous room is not added to used_slots
AssignRoomKeepUnmarked(entry, day, time, subject_list, rooms_by_type, used_slots) ==
    IF entry.room_number # "" /\ <<entry.room_number, day, time>> \notin used_slots
    THEN [room_number |-> entry.room_number, used_slots |-> used_slots]
    ELSE AssignRoomWithoutKeep(entry, day, time, subject_list, rooms_by_type, used_slots)

\* returns the room number ("" for none) and the updated used_slots
AssignRoom(entry, day, time, subject_list, rooms_by_type, used_slots) ==
    LET known == HasSubject(subject_list, entry.subject_code)
        subject == SubjectByCode(subject_list, entry.subject_code)
        preferred_type == IF known THEN subject.format_ ELSE ""
        required_capacity == IF known THEN subject.capacity ELSE 0
        current_room == entry.room_number
        by_type == PickByType(CandidateTypes(preferred_type, rooms_by_type),
                              rooms_by_type, required_capacity, day, time, used_slots)
        any == PickAny(rooms_by_type, day, time, used_slots)
    IN  IF current_room # "" /\ <<current_room, day, time>> \notin used_slots
        THEN [room_number |-> current_room,
              used_slots |-> used_slots \cup {<<current_room, day, time>>}]
        ELSE IF by_type # ""
        THEN [room_number |-> by_type,
              used_slots |-> used_slots \cup {<<by_type, day, time>>}]
        ELSE IF any # ""
        THEN [room_number |-> any,
              used_slots |-> used_slots \cup {<<any, day, time>>}]
        ELSE [room_number |-> current_room, used_slots |-> used_slots]

-----------------------------------------------------------------------------
(* _generate_schedule *)

NoTime == <<>>

NoId == <<>>

\* stands for "existing_entries.get(subject.code) is None" in the log
NoEntry == [schedule_id |-> NoId, subject_code |-> "", professor_id |-> "",
            room_number |-> "", day |-> "", time |-> NoTime]

KnownProfessor(professor_list, prof_id) ==
    \E k \in DOMAIN professor_list : professor_list[k].prof_id = prof_id

\* professors_by_id.get(prof_id): a dict comprehension keeps the last one
ProfessorById(professor_list, prof_id) ==
    professor_list[CHOOSE k \in DOMAIN professor_list :
                      /\ professor_list[k].prof_id = prof_id
                      /\ \A j \in DOMAIN professor_list :
                            professor_list[j].prof_id = prof_id => j <= k]

\* not (not subject.professor_id or professor is None)
IsEligible(subject, professor_list) ==
    /\ subject.professor_id # ""
    /\ KnownProfessor(professor_list, subject.professor_id)

EligibleSubjects(subject_list, professor_list) ==
    SelectSeq(subject_list, LAMBDA s : IsEligible(s, professor_list))

\* a variant that reports only the subjects with an empty professor id
IneligibleSubjectsEmptyIdOnly(subject_list, professor_list) ==
    SelectSeq(subject_list, LAMBDA s : s.professor_id = "")

IneligibleSubjects(subject_list, professor_list) ==
    SelectSeq(subject_list, LAMBDA s : ~IsEligible(s, professor_list))

Codes(subject_list) == [k \in DOMAIN subject_list |-> subject_list[k].code]

\* a variant that never finds the previous entry of a subject
ExistingIndexNone(entries, code) == 0

\* existing_entries = {entry.subject_code: entry ...}: the index of the last
\* entry with that subject code, 0 for none
ExistingIndex(entries, code) ==
    IF \E k \in DOMAIN entries : entries[k].subject_code = code
    THEN CHOOSE k \in DOMAIN entries :
            /\ entries[k].subject_code = code
            /\ \A j \in DOMAIN entries : entries[j].subject_code = code => j <= k
    ELSE 0

\* a variant that does not seed the allocator with the previous identifiers
TakenScheduleIdsNone(entries) == <<>>

\* [entry.schedule_id for entry in self.schedule_entries if entry.schedule_id]
TakenScheduleIds(entries) ==
    LET kept == SelectSeq(entries, LAMBDA e : e.schedule_id # NoId)
    IN  [k \in DOMAIN kept |-> kept[k].schedule_id]

\* key=lambda entry: entry.schedule_id
EntryIdLess(a, b) == StrLess(a.schedule_id, b.schedule_id)

RECURSIVE InsertEntry(_, _)
\* sorted() is stable: x goes before the first element that is strictly greater
InsertEntry(s, x) ==
    IF s = <<>> THEN <<x>>
    ELSE IF EntryIdLess(x, Head(s)) THEN <<x>> \o s
    ELSE <<Head(s)>> \o InsertEntry(Tail(s), x)

\* a variant that returns new_entries in the order of processing
SortEntriesNone(s) == s

RECURSIVE SortEntries(_)
\* sorted(new_entries, key=lambda entry: entry.schedule_id)
SortEntries(s) ==
    IF s = <<>> THEN <<>>
    ELSE InsertEntry(SortEntries(SubSeq(s, 1, Len(s) - 1)), s[Len(s)])

\* a variant that keeps the previous slot without looking at used_prof_slots
ResolveSlotIgnoringUsed(entry, prof_id, slots_for_prof, used) ==
    IF /\ entry.day # ""
       /\ entry.time # NoTime
       /\ <<entry.day, entry.time>> \in SeqToSet(slots_for_prof)
    THEN <<entry.day, entry.time>>
    ELSE NextAvailableProfessorSlot(prof_id, slots_for_prof, used)

\* a variant that never looks at the previous slot
ResolveSlotFirstFitOnly(entry, prof_id, slots_for_prof, used) ==
    NextAvailableProfessorSlot(prof_id, slots_for_prof, used)

\* a variant that moves on to the professor's next free slot when no room is
\* free at the slot of lines 815-825
ResolveSlotBacktracking(entry, prof_id, slots_for_prof, used) ==
    LET first == IF /\ entry.day # ""
                    /\ entry.time # NoTime
                    /\ <<prof_id, entry.day, entry.time>> \notin used
                    /\ <<entry.day, entry.time>> \in SeqToSet(slots_for_prof)
                 THEN <<entry.day, entry.time>>
                 ELSE NextAvailableProfessorSlot(prof_id, slots_for_prof, used)
        has_room(slot) ==
            \E k \in DOMAIN rooms : <<rooms[k].number, slot[1], slot[2]>> \notin used_room_slots
        others == { k \in DOMAIN slots_for_prof :
                      /\ <<prof_id, slots_for_prof[k][1], slots_for_prof[k][2]>> \notin used
                      /\ has_room(slots_for_prof[k]) }
    IN  IF first = NoSlot \/ has_room(first) \/ others = {} THEN first
        ELSE slots_for_prof[CHOOSE k \in others : \A j \in others : k <= j]

\* a variant without the test of line 820: the previous slot is kept when the
\* professor has not consumed it, whether or not it is in slots_for_prof
ResolveSlotAnyWindow(entry, prof_id, slots_for_prof, used) ==
    IF /\ entry.day # ""
       /\ entry.time # NoTime
       /\ <<prof_id, entry.day, entry.time>> \notin used
    THEN <<entry.day, entry.time>>
    ELSE NextAvailableProfessorSlot(prof_id, slots_for_prof, used)

\* the slot of lines 815-825: the previous slot if usable, else first fit
ResolveSlot(entry, prof_id, slots_for_prof, used) ==
    IF /\ entry.day # ""
       /\ entry.time # NoTime
       /\ <<prof_id, entry.day, entry.time>> \notin used
       /\ <<entry.day, entry.time>> \in SeqToSet(slots_for_prof)
    THEN <<entry.day, entry.time>>
    ELSE NextAvailableProfessorSlot(prof_id, slots_for_prof, used)

\* a variant in which line 851 comes before the call of _assign_room
UsedProfSlotsEarly(used, professor_id, day, time_value, room_number) ==
    used \cup {<<professor_id, day, time_value>>}

\* used_prof_slots after lines 842-851: the slot is added once a room is found
UsedProfSlotsAfter(used, professor_id, day, time_value, room_number) ==
    IF room_number = "" THEN used
    ELSE used \cup {<<professor_id, day, time_value>>}

runLocals == <<eligible_subjects, skipped_no_prof, taken_schedule_ids,
               used_prof_slots, used_room_slots, new_entries, skipped_no_slot,
               skipped_no_room, idx, log>>

history == <<loaded, runNo, out1, reordered>>

\* no helper is called on its own during a run of _generate_schedule
NoCall == <<>>

\* a variant without the check of lines 756-758
ValidationErrorNoRoomCheck(subject_list, professor_list, room_list) ==
    IF subject_list = <<>> THEN "NO_SUBJECTS"
    ELSE IF professor_list = <<>> THEN "NO_PROFESSORS"
    ELSE IF EligibleSubjects(subject_list, professor_list) = <<>>
         THEN "NO_ELIGIBLE_SUBJECTS"
    ELSE ""

\* lines 750-758 and 772-774: the validation error that ends the run, "" for none
ValidationError(subject_list, professor_list, room_list) ==
    IF subject_list = <<>> THEN "NO_SUBJECTS"
    ELSE IF professor_list = <<>> THEN "NO_PROFESSORS"
    ELSE IF room_list = <<>> THEN "NO_ROOMS"
    ELSE IF EligibleSubjects(subject_list, professor_list) = <<>>
         THEN "NO_ELIGIBLE_SUBJECTS"
    ELSE ""

\* lines 750-794: the validation of the inputs and the set-up of the loop
Begin ==
    /\ pc = "idle"
    /\ previous' = schedule_entries
    /\ LET reason == ValidationError(subjects, professors, rooms)
           filtered == reason \in {"", "NO_ELIGIBLE_SUBJECTS"}
       IN  /\ failure' = reason
           /\ pc' = IF reason = "" THEN "loop" ELSE "failed"
           /\ eligible_subjects' =
                 IF filtered THEN EligibleSubjects(subjects, professors) ELSE <<>>
           /\ skipped_no_prof' =
                 IF filtered THEN Codes(IneligibleSubjects(subjects, professors))
                 ELSE <<>>
           /\ taken_schedule_ids' =
                 IF reason = "" THEN TakenScheduleIds(schedule_entries) ELSE <<>>
    /\ used_prof_slots' = {}
    /\ used_room_slots' = {}
    /\ new_entries' = <<>>
    /\ skipped_no_slot' = <<>>
    /\ skipped_no_room' = <<>>
    /\ idx' = 1
    /\ log' = <<>>
    /\ UNCHANGED <<inputs, schedule_entries, today, history, call>>

\* a variant without line 813: a carried entry keeps the professor it named
PreparedEntryKeepProfessor(found, schedule_id, subject, professor) ==
    IF found = NoEntry
    THEN [found EXCEPT !.schedule_id = schedule_id,
                       !.subject_code = subject.code,
                       !.professor_id = professor.prof_id]
    ELSE [found EXCEPT !.schedule_id = schedule_id,
                       !.subject_code = subject.code]

\* the entry after lines 802-813: a new entry for the subject, or the previous
\* one with its identifier completed and its subject and professor overwritten
PreparedEntry(found, schedule_id, subject, professor) ==
    [found EXCEPT !.schedule_id = schedule_id,
                  !.subject_code = subject.code,
                  !.professor_id = professor.prof_id]

\* lines 796-851: one iteration of the loop over eligible_subjects
ProcessSubject ==
    /\ pc = "loop"
    /\ idx <= Len(eligible_subjects)
    /\ LET subject == eligible_subjects[idx]
           professor == ProfessorById(professors, subject.professor_id)
           slots_for_prof == BuildProfessorSlots(professor, today)
           k == ExistingIndex(schedule_entries, subject.code)
           found == IF k = 0 THEN NoEntry ELSE schedule_entries[k]
           needs_id == k = 0 \/ found.schedule_id = NoId
           schedule_id == IF needs_id
                          THEN SuggestIdentifier(taken_schedule_ids, SchedulePrefix,
                                                 ScheduleDigits)
                          ELSE found.schedule_id
           entry == PreparedEntry(found, schedule_id, subject, professor)
           preferred_slot == ResolveSlot(entry, professor.prof_id, slots_for_prof,
                                         used_prof_slots)
           day == preferred_slot[1]
           time_value == preferred_slot[2]
           tentative_entry == [entry EXCEPT !.day = day, !.time = time_value]
           assigned == AssignRoom(tentative_entry, day, time_value, subjects,
                                  RoomsByType(rooms), used_room_slots)
           final == [entry EXCEPT !.day = day, !.time = time_value,
                                  !.room_number = assigned.room_number]
           logged(outcome, slot, room) ==
               Append(log, [code |-> subject.code,
                            professor_id |-> professor.prof_id,
                            outcome |-> outcome,
                            prev |-> found,
                            schedule_id |-> IF outcome = "no_pool" THEN NoId
                                            ELSE schedule_id,
                            slot |-> slot,
                            room_number |-> room,
                            used_prof |-> used_prof_slots,
                            used_room |-> used_room_slots])
       IN  IF slots_for_prof = <<>>
           THEN \* lines 798-800
                /\ skipped_no_slot' = Append(skipped_no_slot, subject.code)
                /\ log' = logged("no_pool", NoSlot, "")
                /\ UNCHANGED <<schedule_entries, taken_schedule_ids, used_prof_slots,
                               used_room_slots, new_entries, skipped_no_room>>
           ELSE /\ taken_schedule_ids' =
                      IF needs_id THEN Append(taken_schedule_ids, schedule_id)
                      ELSE taken_schedule_ids
                /\ IF preferred_slot = NoSlot
                   THEN \* lines 827-829
                        /\ skipped_no_slot' = Append(skipped_no_slot, subject.code)
                        /\ log' = logged("no_slot", NoSlot, "")
                        /\ schedule_entries' =
                              IF k = 0 THEN schedule_entries
                              ELSE [schedule_entries EXCEPT ![k] = entry]
                        /\ UNCHANGED <<used_prof_slots, used_room_slots, new_entries,
                                       skipped_no_room>>
                   ELSE IF assigned.room_number = ""
                   THEN \* lines 842-844
                        /\ skipped_no_room' = Append(skipped_no_room, subject.code)
                        /\ log' = logged("no_room", preferred_slot, "")
                        /\ used_room_slots' = assigned.used_slots
                        /\ used_prof_slots' =
                              UsedProfSlotsAfter(used_prof_slots, professor.prof_id, day,
                                                 time_value, assigned.room_number)
                        /\ schedule_entries' =
                              IF k = 0 THEN schedule_entries
                              ELSE [schedule_entries EXCEPT ![k] = entry]
                        /\ UNCHANGED <<new_entries, skipped_no_slot>>
                   ELSE \* lines 846-851
                        /\ new_entries' = Append(new_entries, final)
                        /\ used_prof_slots' =
                              UsedProfSlotsAfter(used_prof_slots, professor.prof_id, day,
                                                 time_value, assigned.room_number)
                        /\ used_room_slots' = assigned.used_slots
                        /\ log' = logged("assigned", preferred_slot, assigned.room_number)
                        /\ schedule_entries' =
                              IF k = 0 THEN schedule_entries
                              ELSE [schedule_entries EXCEPT ![k] = final]
                        /\ UNCHANGED <<skipped_no_slot, skipped_no_room>>
    /\ idx' = idx + 1
    /\ UNCHANGED <<inputs, today, pc, failure, eligible_subjects, skipped_no_prof,
                   previous, history, call>>

\* lines 853-857: the end of the run
Finish ==
    /\ pc = "loop"
    /\ idx > Len(eligible_subjects)
    /\ IF new_entries = <<>>
       THEN /\ pc' = "failed"
            /\ failure' = "NO_ASSIGNMENTS_PRODUCED"
            /\ UNCHANGED schedule_entries
       ELSE /\ pc' = "done"
            /\ failure' = ""
            /\ schedule_entries' = SortEntries(new_entries)
    /\ UNCHANGED <<inputs, today, runLocals, previous, history, call>>

-----------------------------------------------------------------------------
(* The inputs of a run *)

Professor(prof_id, window) ==
    [prof_id |-> prof_id, office_start |-> window[1], office_end |-> window[2]]

Room(number, capacity, lec_sem) ==
    [number |-> number, capacity |-> capacity, lec_sem |-> lec_sem]

Subject(code, format_, capacity, professor_id) ==
    [code |-> code, format_ |-> format_, capacity |-> capacity,
     professor_id |-> professor_id]

ScheduleEntry(schedule_id, subject_code, professor_id, room_number, day, time) ==
    [schedule_id |-> schedule_id, subject_code |-> subject_code,
     professor_id |-> professor_id, room_number |-> room_number,
     day |-> day, time |-> time]

\* office windows in minutes since midnight: 09:00-10:00 (one block a day),
\* 09:00-11:00 (two blocks a day), 09:00-09:30 (no whole block)
OneHour == <<540, 600>>

TwoHours == <<540, 660>>

HalfHour == <<540, 570>>

T0900 == Strftime(540)

T1000 == Strftime(600)

SubjectCodes == <<"SBJ001", "SBJ002", "SBJ003", "SBJ004", "SBJ005", "SBJ006",
                  "SBJ007", "SBJ008">>

\* self.professors is kept sorted by prof_id and ids are unique (lines 223, 267-272)
ProfessorLists ==
    { <<>>,
      <<Professor("P1", TwoHours)>>,
      <<Professor("P1", TwoHours), Professor("P2", OneHour)>>,
      <<Professor("P1", HalfHour), Professor("P2", OneHour)>> }

\* self.rooms is kept sorted by number and numbers are unique (lines 363, 402-406)
RoomLists ==
    { <<>>,
      <<Room("R1", 50, "Lecture")>>,
      <<Room("R1", 50, "Lecture"), Room("R2", 30, "Seminar")>> }

\* self.subjects is kept sorted by code and codes are unique (lines 519, 590-604)
SubjectLists(profs, kinds) ==
    UNION { { [k \in 1..n |-> Subject(SubjectCodes[k], kd[k][1], kd[k][2], pr[k])] :
                pr \in [1..n -> profs], kd \in [1..n -> kinds] } : n \in 0..MaxSubjects }

\* the entries a schedule file can hold for one subject
EntryChoices(code, schedule_id, room_numbers, slots) ==
    { ScheduleEntry(schedule_id, code, "P1", r, sl[1], sl[2]) :
        r \in room_numbers, sl \in slots }

\* zero or one entry of each of the two sets, in that order
EntryLists(first, second) ==
    {<<>>} \cup { <<e>> : e \in first \cup second }
           \cup { <<e1, e2>> : e1 \in first, e2 \in second }

PrevRooms == {"", "R1", "R2"}

PrevSlots == {<<"", NoTime>>, <<"Monday", T0900>>, <<"Tuesday", T1000>>}

InitLocals ==
    /\ pc = "idle"
    /\ failure = ""
    /\ eligible_subjects = <<>>
    /\ skipped_no_prof = <<>>
    /\ taken_schedule_ids = <<>>
    /\ used_prof_slots = {}
    /\ used_room_slots = {}
    /\ new_entries = <<>>
    /\ skipped_no_slot = <<>>
    /\ skipped_no_room = <<>>
    /\ idx = 1
    /\ previous = <<>>
    /\ log = <<>>
    /\ loaded = schedule_entries
    /\ runNo = 1
    /\ out1 = <<>>
    /\ reordered = FALSE

InitRun == InitLocals /\ call = NoCall

Init ==
    /\ professors \in ProfessorLists
    /\ rooms \in RoomLists
    /\ subjects \in SubjectLists({"", "P1", "P2"}, {<<"Lecture", 20>>})
    /\ schedule_entries \in
          EntryLists(EntryChoices("SBJ001", SCH(1), PrevRooms, PrevSlots),
                     EntryChoices("SBJ002", SCH(2), PrevRooms, PrevSlots))
    /\ today = 1
    /\ InitRun

Next == Begin \/ ProcessSubject \/ Finish

Spec == Init /\ [][Next]_vars

-----------------------------------------------------------------------------
(* A second run on the same inputs *)

\* what a run leaves behind: how it ended, the stored schedule, the skip buckets
Outcome ==
    [ended |-> pc, failure |-> failure, entries |-> schedule_entries,
     no_professor |-> skipped_no_prof, no_available_slot |-> skipped_no_slot,
     no_available_room |-> skipped_no_room]

\* the dates datetime.today() may return (day numbers)
Dates == {1, 2, 3}

\* the program is started again on the data files of the first run (lines
\* 184-188 read the same lists again), possibly on another day
Reload ==
    /\ pc \in {"done", "failed"}
    /\ runNo = 1
    /\ out1' = <<[outcome |-> Outcome, date |-> today]>>
    /\ runNo' = 2
    /\ schedule_entries' = loaded
    /\ today' \in Dates
    /\ pc' = "idle"
    /\ failure' = ""
    /\ UNCHANGED <<inputs, runLocals, previous, loaded, call, reordered>>

InitDet ==
    /\ professors \in ProfessorLists
    /\ rooms \in RoomLists
    /\ subjects \in SubjectLists({"", "P1", "P2"}, {<<"Lecture", 20>>})
    /\ schedule_entries \in
          EntryLists(EntryChoices("SBJ001", SCH(1), {"", "R2"}, PrevSlots), {})
    /\ today \in Dates
    /\ InitRun

NextDet == Begin \/ ProcessSubject \/ Finish \/ Reload

SpecDet == InitDet /\ [][NextDet]_vars

-----------------------------------------------------------------------------
(* Inputs that exercise the identifiers *)

\* identifiers a schedule file can hold: none, small and large numbers of the
\* allocator's form, a four-digit number and an identifier of another form
PrevIds ==
    { NoId, SCH(1), SCH(2), SCH(998), SCH(999), SCH(1000), <<"X", "0", "0", "1">> }

\* "SBJ009" stands for a subject that has been deleted since the last run
PrevCodes == {"SBJ001", "SBJ002", "SBJ009"}

IdEntryChoices ==
    { ScheduleEntry(id, c, "P1", "", sl[1], sl[2]) :
        id \in PrevIds, c \in PrevCodes, sl \in {<<"", NoTime>>, <<"Monday", T0900>>} }

\* at most two entries, of different subjects, with different identifiers unless
\* empty, in the order of line 709
IdEntryLists ==
    {<<>>} \cup { <<e>> : e \in IdEntryChoices }
           \cup { pair \in { <<e1, e2>> : e1 \in IdEntryChoices, e2 \in IdEntryChoices } :
                    /\ pair[1].subject_code # pair[2].subject_code
                    /\ pair[1].schedule_id # pair[2].schedule_id \/ pair[1].schedule_id = NoId
                    /\ ~EntryIdLess(pair[2], pair[1]) }

InitIds ==
    /\ professors = <<Professor("P1", TwoHours)>>
    /\ rooms = <<Room("R1", 50, "Lecture"), Room("R2", 30, "Seminar")>>
    /\ subjects \in SubjectLists({"", "P1", "P2"}, {<<"Lecture", 20>>})
    /\ schedule_entries \in IdEntryLists
    /\ today = 1
    /\ InitRun

SpecIds == InitIds /\ [][Next]_vars

-----------------------------------------------------------------------------
(* Inputs that exercise the room selection *)

\* zero or one room of each of three sets, in the order of the room numbers
RoomListsOf(first, second, third) ==
    { a \o b \o c : a \in {<<>>} \cup { <<r>> : r \in first },
                    b \in {<<>>} \cup { <<r>> : r \in second },
                    c \in {<<>>} \cup { <<r>> : r \in third } }

\* capacities that do not follow the room numbers, and rooms with an empty tag
\* or the tag "Unspecified" (_load_rooms accepts any tag, line 353)
CapRoomLists ==
    RoomListsOf({Room("R1", 50, "Lecture"), Room("R1", 50, "")},
                {Room("R2", 30, "Lecture"), Room("R2", 30, "Unspecified")},
                {Room("R3", 40, "Lecture"), Room("R3", 20, "Seminar")})

\* subjects that alternate between two professors who share Monday 09:00
CapSubjectLists(kinds) ==
    UNION { { [k \in 1..n |->
                 Subject(SubjectCodes[k], kd[k][1], kd[k][2],
                         IF k % 2 = 1 THEN "P1" ELSE "P2")] :
                kd \in [1..n -> kinds] } : n \in 0..MaxSubjects }

InitCap ==
    /\ professors = <<Professor("P1", TwoHours), Professor("P2", OneHour)>>
    /\ rooms \in CapRoomLists
    /\ subjects \in CapSubjectLists({<<"Lecture", 40>>, <<"Lecture", 20>>,
                                     <<"Unspecified", 20>>, <<"", 20>>})
    /\ schedule_entries \in
          EntryLists(EntryChoices("SBJ002", SCH(1), {"", "R1", "R2"}, {<<"", NoTime>>}), {})
    /\ today = 1
    /\ InitRun

SpecCap == InitCap /\ [][Next]_vars

-----------------------------------------------------------------------------
(* Inputs that exhaust a professor's slots *)

\* up to MaxLoad subjects, each of professor P1 or P2
LoadSubjectLists ==
    UNION { { [k \in 1..n |-> Subject(SubjectCodes[k], "Lecture", 20, pr[k])] :
                pr \in [1..n -> {"P1", "P2"}] } : n \in 0..MaxLoad }

InitLoad ==
    /\ professors \in { <<Professor("P1", OneHour), Professor("P2", w)>> :
                          w \in {OneHour, HalfHour} }
    /\ rooms \in { <<Room("R1", 50, "Lecture")>>,
                   <<Room("R1", 50, "Lecture"), Room("R2", 30, "Seminar")>> }
    /\ subjects \in LoadSubjectLists
    /\ schedule_entries \in
          EntryLists(EntryChoices("SBJ002", SCH(1), {""},
                                  {<<"", NoTime>>, <<"Monday", T0900>>, <<"Friday", T0900>>,
                                   <<"Friday", T1000>>}), {})
    /\ today = 1
    /\ InitRun

SpecLoad == InitLoad /\ [][Next]_vars

-----------------------------------------------------------------------------
(* Vocabulary of the properties *)

\* the availability sequence of a professor in this run
Availability(prof_id) ==
    BuildProfessorSlots(ProfessorById(professors, prof_id), today)

ProfSlotOf(e) == <<e.professor_id, e.day, e.time>>

RoomSlotOf(e) == <<e.room_number, e.day, e.time>>

SlotOf(e) == <<e.day, e.time>>

\* the assignments the run has accepted so far, and the stored result once done
Accepted == IF pc = "done" THEN schedule_entries ELSE new_entries

EntriesOf(entries, code) == { k \in DOMAIN entries : entries[k].subject_code = code }

\* an ineligible subject, in the words of the specification
Unlinked(subject) ==
    \/ subject.professor_id = ""
    \/ \A k \in DOMAIN professors : professors[k].prof_id # subject.professor_id

UnlinkedCodes == { subjects[k].code : k \in { j \in DOMAIN subjects : Unlinked(subjects[j]) } }

\* the log records of the subjects for which a slot was resolved
Resolved(rec) == rec.outcome \in {"assigned", "no_room"}

-----------------------------------------------------------------------------
(* C1 *)

\* C1: in the list of accepted assignments (during the run) and in the stored
\* output (after it), no two distinct assignments have the same
\* (professor, day, time).
C1_NoProfessorDoubleBooking ==
    /\ \A a, b \in DOMAIN new_entries :
          a # b => ProfSlotOf(new_entries[a]) # ProfSlotOf(new_entries[b])
    /\ pc = "done" =>
          \A a, b \in DOMAIN schedule_entries :
             a # b => ProfSlotOf(schedule_entries[a]) # ProfSlotOf(schedule_entries[b])

\* two subjects of one professor whose previous entries name the same slot are
\* both assigned: the first kept the slot, the second had to move
C1_Witness ==
    /\ pc = "done"
    /\ \E i, j \in DOMAIN log :
          /\ i < j
          /\ log[i].professor_id = log[j].professor_id
          /\ log[i].outcome = "assigned" /\ log[j].outcome = "assigned"
          /\ log[i].prev.day # "" /\ log[i].prev.time # NoTime
          /\ SlotOf(log[i].prev) = SlotOf(log[j].prev)
          /\ log[i].slot = SlotOf(log[i].prev)

-----------------------------------------------------------------------------
(* C2 *)

\* C2: in the list of accepted assignments and in the stored output, no two
\* distinct assignments have the same (room, day, time).
C2_NoRoomDoubleBooking ==
    /\ \A a, b \in DOMAIN new_entries :
          a # b => RoomSlotOf(new_entries[a]) # RoomSlotOf(new_entries[b])
    /\ pc = "done" =>
          \A a, b \in DOMAIN schedule_entries :
             a # b => RoomSlotOf(schedule_entries[a]) # RoomSlotOf(schedule_entries[b])

-----------------------------------------------------------------------------
(* C3 *)

\* the stability preference applies to a processed subject
SlotPreferenceApplies(rec) ==
    /\ rec.prev.day # ""
    /\ rec.prev.time # NoTime
    /\ SlotOf(rec.prev) \in SeqToSet(Availability(rec.professor_id))
    /\ <<rec.professor_id, rec.prev.day, rec.prev.time>> \notin rec.used_prof

\* C3: a processed subject whose previous (day, time) is in its professor's
\* availability and was not consumed by the professor when it was processed has
\* that (day, time) resolved as its slot, and its assignment, if it gets one,
\* carries exactly that (day, time).
C3_SlotStability ==
    \A r \in DOMAIN log :
       SlotPreferenceApplies(log[r]) =>
          /\ Resolved(log[r])
          /\ log[r].slot = SlotOf(log[r].prev)
          /\ log[r].outcome = "assigned" =>
                /\ EntriesOf(Accepted, log[r].code) # {}
                /\ \A k \in EntriesOf(Accepted, log[r].code) :
                      SlotOf(Accepted[k]) = SlotOf(log[r].prev)

\* a subject kept a previous slot that first fit would not have given it
C3_Witness ==
    /\ pc = "done"
    /\ \E r \in DOMAIN log :
          /\ SlotPreferenceApplies(log[r])
          /\ log[r].outcome = "assigned"
          /\ SlotOf(log[r].prev) #
                NextAvailableProfessorSlot(log[r].professor_id,
                                           Availability(log[r].professor_id),
                                           log[r].used_prof)

-----------------------------------------------------------------------------
(* C4 *)

\* the previous room of a processed subject is free at the slot resolved for it
RoomPreferenceApplies(rec) ==
    /\ Resolved(rec)
    /\ rec.prev.room_number # ""
    /\ <<rec.prev.room_number, rec.slot[1], rec.slot[2]>> \notin rec.used_room

\* C4: a subject for which a slot was resolved and whose previous room is not
\* consumed at that slot is assigned, keeps that room, and the (room, day, time)
\* is consumed afterwards.
C4_RoomStability ==
    \A r \in DOMAIN log :
       RoomPreferenceApplies(log[r]) =>
          /\ log[r].outcome = "assigned"
          /\ log[r].room_number = log[r].prev.room_number
          /\ <<log[r].prev.room_number, log[r].slot[1], log[r].slot[2]>> \in used_room_slots
          /\ EntriesOf(Accepted, log[r].code) # {}
          /\ \A k \in EntriesOf(Accepted, log[r].code) :
                Accepted[k].room_number = log[r].prev.room_number

\* a subject kept a previous room that the type and capacity policy would not
\* have chosen for it
C4_Witness ==
    /\ pc = "done"
    /\ \E r \in DOMAIN log :
          /\ RoomPreferenceApplies(log[r])
          /\ log[r].outcome = "assigned"
          /\ AssignRoom([NoEntry EXCEPT !.subject_code = log[r].code],
                        log[r].slot[1], log[r].slot[2], subjects,
                        RoomsByType(rooms), log[r].used_room).room_number
                # log[r].prev.room_number

-----------------------------------------------------------------------------
(* C6 *)

\* C6: in the output of a run no two assignments have the same identifier, and
\* no assignment carries an identifier that the previous list gave to another
\* subject.
C6_IdentifiersUnique ==
    pc = "done" =>
       /\ \A a, b \in DOMAIN schedule_entries :
             a # b => schedule_entries[a].schedule_id # schedule_entries[b].schedule_id
       /\ \A a \in DOMAIN schedule_entries : \A k \in DOMAIN previous :
             (/\ previous[k].schedule_id # NoId
              /\ previous[k].schedule_id = schedule_entries[a].schedule_id)
             => previous[k].subject_code = schedule_entries[a].subject_code

-----------------------------------------------------------------------------
(* C7 *)

RequiredType(rec) == SubjectByCode(subjects, rec.code).format_

RequiredCapacity(rec) == SubjectByCode(subjects, rec.code).capacity

FreeAt(rec, k) == <<rooms[k].number, rec.slot[1], rec.slot[2]>> \notin rec.used_room

\* (capacity, room number) order
SmallerRoom(a, b) ==
    \/ a.capacity < b.capacity
    \/ a.capacity = b.capacity /\ NameLess(a.number, b.number)

\* the rooms carrying the required format tag that are free at the chosen slot
FreeOfRequiredType(rec) ==
    { k \in DOMAIN rooms : rooms[k].lec_sem = RequiredType(rec) /\ FreeAt(rec, k) }

PreviousRoomNotKept(rec) ==
    \/ rec.prev.room_number = ""
    \/ <<rec.prev.room_number, rec.slot[1], rec.slot[2]>> \in rec.used_room

\* the free rooms of sufficient capacity grouped under the required type in the
\* room index (an empty tag is grouped under "Unspecified")
FreeQualifying(rec) ==
    { k \in DOMAIN rooms :
        /\ (IF rooms[k].lec_sem = "" THEN "Unspecified" ELSE rooms[k].lec_sem)
              = RequiredType(rec)
        /\ rooms[k].capacity >= RequiredCapacity(rec)
        /\ FreeAt(rec, k) }

-----------------------------------------------------------------------------
(* C8 *)

\* the run got as far as the eligibility filter of lines 763-770
Filtered == pc # "idle" /\ failure \notin {"NO_SUBJECTS", "NO_PROFESSORS", "NO_ROOMS"}

\* the identifiers the loop has allocated so far
AllocatedCount ==
    Cardinality({ r \in DOMAIN log :
                    /\ log[r].outcome # "no_pool"
                    /\ log[r].prev.schedule_id = NoId })

\* C8: once the filter has run, skipped_no_prof holds exactly the codes of the
\* subjects whose professor id is empty or unknown (in subject order) and
\* eligible_subjects holds every other subject; the loop processes eligible
\* subjects only, every consumed identifier, professor slot and room slot
\* belongs to a processed (eligible) subject, and no unlinked subject is in the
\* other two buckets or in the assignments.
C8_EligibilityFilter ==
    Filtered =>
       /\ skipped_no_prof = Codes(SelectSeq(subjects, Unlinked))
       /\ eligible_subjects = SelectSeq(subjects, LAMBDA s : ~Unlinked(s))
       /\ Len(log) = idx - 1
       /\ \A r \in DOMAIN log :
             log[r].code = eligible_subjects[r].code /\ log[r].code \notin UnlinkedCodes
       /\ \A k \in DOMAIN Accepted : Accepted[k].subject_code \notin UnlinkedCodes
       /\ \A k \in DOMAIN skipped_no_slot : skipped_no_slot[k] \notin UnlinkedCodes
       /\ \A k \in DOMAIN skipped_no_room : skipped_no_room[k] \notin UnlinkedCodes
       /\ used_prof_slots \subseteq
             { <<log[r].professor_id, log[r].slot[1], log[r].slot[2]>> :
                 r \in { q \in DOMAIN log : log[q].outcome = "assigned" } }
       /\ used_room_slots \subseteq
             { <<log[r].room_number, log[r].slot[1], log[r].slot[2]>> :
                 r \in { q \in DOMAIN log : log[q].outcome = "assigned" } }
       /\ pc = "loop" =>
             Len(taken_schedule_ids) = Len(TakenScheduleIds(previous)) + AllocatedCount

\* a finished run skipped a subject with an empty professor id and a subject
\* with an unknown one, the latter having a previous entry, and assigned another
C8_Witness ==
    /\ pc = "done"
    /\ \E a, b \in DOMAIN subjects :
          /\ subjects[a].professor_id = ""
          /\ subjects[b].professor_id # "" /\ Unlinked(subjects[b])
          /\ EntriesOf(previous, subjects[b].code) # {}
          /\ subjects[a].code \in SeqToSet(skipped_no_prof)
          /\ subjects[b].code \in SeqToSet(skipped_no_prof)

-----------------------------------------------------------------------------
(* C9 *)

MissingInput ==
    \/ subjects = <<>>
    \/ professors = <<>>
    \/ rooms = <<>>
    \/ \A k \in DOMAIN subjects : Unlinked(subjects[k])

\* C9: a run whose subject, professor or room list is empty, or none of whose
\* subjects is linked to a known professor, ends in a validation failure of one
\* of these four kinds before the loop: nothing is processed, no assignment is
\* produced and the stored schedule is the one the run started with.
C9_StructuralFailure ==
    (pc # "idle" /\ MissingInput) =>
       /\ pc = "failed"
       /\ failure \in {"NO_SUBJECTS", "NO_PROFESSORS", "NO_ROOMS", "NO_ELIGIBLE_SUBJECTS"}
       /\ log = <<>>
       /\ new_entries = <<>>
       /\ schedule_entries = previous
       /\ schedule_entries = loaded

\* the run was refused for want of rooms although a linked subject had a previous
\* entry naming a room
C9_Witness ==
    /\ pc = "failed"
    /\ failure = "NO_ROOMS"
    /\ \E k \in DOMAIN subjects :
          /\ ~Unlinked(subjects[k])
          /\ Availability(subjects[k].professor_id) # <<>>
          /\ \E e \in EntriesOf(schedule_entries, subjects[k].code) :
                schedule_entries[e].room_number # ""

-----------------------------------------------------------------------------
(* C5 *)

\* C5: the second run, started from the professors, rooms, subjects and
\* previous assignment list of the first run (on any date), ends the same way
\* and leaves the same stored schedule (identifiers, subjects, professors,
\* rooms, days and times, in the same order) and the same three skip buckets.
C5_Determinism ==
    (runNo = 2 /\ pc \in {"done", "failed"}) => Outcome = out1[1].outcome

\* a second run on another date has produced a schedule of two assignments or
\* more and skipped a subject
C5_Witness ==
    /\ runNo = 2
    /\ pc = "done"
    /\ out1[1].date # today
    /\ Len(schedule_entries) >= 2
    /\ loaded # <<>>
    /\ skipped_no_slot # <<>> \/ skipped_no_room # <<>>

-----------------------------------------------------------------------------
(* C10 *)

\* every slot of the professor's availability was consumed by the professor
\* when the subject was processed (true of an empty availability)
PoolExhausted(rec) ==
    \A k \in DOMAIN Availability(rec.professor_id) :
       <<rec.professor_id, Availability(rec.professor_id)[k][1],
         Availability(rec.professor_id)[k][2]>> \in rec.used_prof

SlotSkipped(rec) == rec.outcome \in {"no_pool", "no_slot"}

\* C10: a processed subject is skipped for want of a slot exactly when its
\* professor's availability is empty or wholly consumed by that professor;
\* skipped_no_slot lists exactly these subjects, none of them is assigned, and
\* every other processed subject has a slot of its professor's availability
\* resolved.
C10_NoAvailableSlot ==
    /\ \A r \in DOMAIN log :
          /\ SlotSkipped(log[r]) <=> PoolExhausted(log[r])
          /\ log[r].outcome = "no_pool" <=> Availability(log[r].professor_id) = <<>>
          /\ SlotSkipped(log[r]) => EntriesOf(Accepted, log[r].code) = {}
          /\ ~SlotSkipped(log[r]) =>
                log[r].slot \in SeqToSet(Availability(log[r].professor_id))
    /\ pc # "idle" =>
          skipped_no_slot =
             [k \in DOMAIN SelectSeq(log, SlotSkipped) |-> SelectSeq(log, SlotSkipped)[k].code]

\* a subject was skipped because the other subjects of its professor had
\* consumed every slot of a non-empty availability
C10_Witness ==
    /\ pc = "done"
    /\ \E r \in DOMAIN log :
          /\ log[r].outcome = "no_slot"
          /\ Availability(log[r].professor_id) # <<>>
          /\ log[r].code \in SeqToSet(skipped_no_slot)

-----------------------------------------------------------------------------
(* C11 *)

\* a slot was resolved for the subject and no room is free at that slot: its
\* previous room, if any, is consumed there and so is every room of self.rooms
NoRoomFree(rec) ==
    /\ Resolved(rec)
    /\ PreviousRoomNotKept(rec)
    /\ \A k \in DOMAIN rooms : ~FreeAt(rec, k)

\* C11: a processed subject for which no room is free at the resolved slot is
\* recorded in skipped_no_room and gets no assignment.
C11_NoAvailableRoom ==
    \A r \in DOMAIN log :
       NoRoomFree(log[r]) =>
          /\ log[r].outcome = "no_room"
          /\ log[r].code \in SeqToSet(skipped_no_room)
          /\ EntriesOf(Accepted, log[r].code) = {}

-----------------------------------------------------------------------------
(* C12 *)

\* how many times a code occurs in a sequence of codes
Occurrences(code_seq, code) ==
    Cardinality({ k \in DOMAIN code_seq : code_seq[k] = code })

\* the four places a subject code can end up in, as sequences of codes
Places ==
    << [k \in DOMAIN schedule_entries |-> schedule_entries[k].subject_code],
       skipped_no_prof, skipped_no_slot, skipped_no_room >>

\* C12: after a run that returns a result, every subject code of the input
\* occurs exactly once in the output assignments and the three skip buckets
\* taken together, and these hold no other code.
C12_Partition ==
    pc = "done" =>
       /\ \A k \in DOMAIN subjects :
             Occurrences(Places[1], subjects[k].code)
             + Occurrences(Places[2], subjects[k].code)
             + Occurrences(Places[3], subjects[k].code)
             + Occurrences(Places[4], subjects[k].code) = 1
       /\ \A p \in DOMAIN Places :
             SeqToSet(Places[p]) \subseteq SeqToSet(Codes(subjects))

\* a run returned a result with a subject assigned, one skipped for want of a
\* professor and one skipped for want of a room
C12_Witness ==
    /\ pc = "done"
    /\ Len(subjects) = 3
    /\ Places[1] # <<>>
    /\ Places[2] # <<>>
    /\ Places[4] # <<>>

-----------------------------------------------------------------------------
(* A second run on the output of the first *)

\* the Generate button is pressed again after a run that returned a result:
\* self.schedule_entries is now the output of that run (line 857)
Rerun ==
    /\ pc = "done"
    /\ runNo = 1
    /\ out1' = <<[outcome |-> Outcome, date |-> today, log |-> log]>>
    /\ runNo' = 2
    /\ pc' = "idle"
    /\ failure' = ""
    /\ UNCHANGED <<inputs, schedule_entries, today, runLocals, previous, loaded, call,
                   reordered>>

RerunProfessorLists ==
    { <<Professor("P1", TwoHours), Professor("P2", TwoHours)>>,
      <<Professor("P1", TwoHours), Professor("P2", HalfHour)>> }

RerunSlots == {<<"", NoTime>>, <<"Monday", T1000>>}

InitRerun ==
    /\ professors \in RerunProfessorLists
    /\ rooms \in RoomLists \ {<<>>}
    /\ subjects \in SubjectLists({"", "P1", "P2"}, {<<"Lecture", 20>>})
    /\ schedule_entries \in
          EntryLists(EntryChoices("SBJ001", SCH(1), {"", "R1"}, RerunSlots),
                     EntryChoices("SBJ002", SCH(2), {"", "R1"}, RerunSlots))
    /\ today = 1
    /\ InitRun

NextRerun == Begin \/ ProcessSubject \/ Finish \/ Rerun

SpecRerun == InitRerun /\ [][NextRerun]_vars

-----------------------------------------------------------------------------
(* C13 *)

\* the second run has ended
RerunEnded == runNo = 2 /\ pc \in {"done", "failed"}

\* the claim as stated: the second run returns the assignments of the first
\* run, unchanged and in the same order, and the same three skip buckets
C13_RerunIdempotenceAsStated ==
    RerunEnded =>
       /\ pc = "done"
       /\ schedule_entries = out1[1].outcome.entries
       /\ skipped_no_prof = out1[1].outcome.no_professor
       /\ skipped_no_slot = out1[1].outcome.no_available_slot
       /\ skipped_no_room = out1[1].outcome.no_available_room

\* the subject was tried at the first free slot of its professor's availability
TriedAtFirstFit(rec) ==
    rec.slot = NextAvailableProfessorSlot(rec.professor_id,
                                          Availability(rec.professor_id), rec.used_prof)

\* the first run skipped no subject for want of a room at a slot that only its
\* previous entry gave it (the second run, which has no entry for a skipped
\* subject, tries such a subject at another slot)
NoSlotLost ==
    \A r \in DOMAIN out1[1].log :
       out1[1].log[r].outcome = "no_room" => TriedAtFirstFit(out1[1].log[r])

\* C13 (amended): when every subject that the first run skipped under
\* NO_AVAILABLE_ROOM was tried at the first free slot of its professor, the
\* second run on the first run's output returns the same assignments
\* (identifier, subject, professor, room, day, time, in the same order) and the
\* same three skip buckets.
C13_RerunIdempotence ==
    (RerunEnded /\ NoSlotLost) =>
       /\ pc = "done"
       /\ schedule_entries = out1[1].outcome.entries
       /\ skipped_no_prof = out1[1].outcome.no_professor
       /\ skipped_no_slot = out1[1].outcome.no_available_slot
       /\ skipped_no_room = out1[1].outcome.no_available_room

\* the second run has kept a slot and a room that the first run took over from
\* its own previous list, next to a subject that both runs skipped
C13_Witness ==
    /\ RerunEnded
    /\ NoSlotLost
    /\ Len(schedule_entries) >= 2
    /\ skipped_no_room # <<>>
    /\ \E r \in DOMAIN log :
          /\ log[r].outcome = "assigned"
          /\ log[r].slot = <<"Monday", T1000>>
          /\ log[r].slot # NextAvailableProfessorSlot(log[r].professor_id,
                                Availability(log[r].professor_id), log[r].used_prof)

-----------------------------------------------------------------------------
(* The helpers called on their own *)

\* everything but the call: no run of _generate_schedule is in progress
program == <<inputs, schedule_entries, today, pc, failure, runLocals, previous, history>>

NoProgram ==
    /\ professors = <<>>
    /\ rooms = <<>>
    /\ subjects = <<>>
    /\ schedule_entries = <<>>
    /\ today = 1
    /\ InitLocals

\* identifiers of the allocator's form next to the top of the digit width,
\* over the top of it, with another prefix, and a bare prefix
AllocIds ==
    { SCH(1), SCH(998), SCH(999), SCH(1000),
      <<"X", "8">>, <<"X", "9">>, <<"X", "1", "0">>, <<"S", "C", "H">> }

AllocExisting ==
    UNION { [1..n -> AllocIds] : n \in 0..MaxExisting }

AllocPrefixes == { SchedulePrefix, <<"X">> }

AllocDigits == {1, 3}

InitAlloc ==
    /\ NoProgram
    /\ call \in { [existing |-> ex, prefix |-> pf, digits |-> dg,
                   result |-> NoId, returned |-> FALSE] :
                    ex \in AllocExisting, pf \in AllocPrefixes, dg \in AllocDigits }

\* _suggest_identifier(existing, prefix=..., digits=...)
SuggestCall ==
    /\ ~call.returned
    /\ call' = [call EXCEPT
                  !.result = SuggestIdentifier(call.existing, call.prefix, call.digits),
                  !.returned = TRUE]
    /\ UNCHANGED program

NextAlloc == SuggestCall

SpecAlloc == InitAlloc /\ [][NextAlloc]_vars

-----------------------------------------------------------------------------
(* C14 *)

\* C14: the identifier the allocator returns is not a member of the collection
\* of existing identifiers it was given, whatever the prefix and the width.
C14_AllocatorFresh ==
    call.returned => call.result \notin SeqToSet(call.existing)

-----------------------------------------------------------------------------
(* _build_professor_slots called on its own *)

\* office_start and office_end in minutes since midnight: midnight, 09:00,
\* 09:30, 22:30 and 00:00, 09:00, 09:30, 09:59, 10:00, 11:00, 11:45, 23:59
WindowStarts == {0, 540, 570, 1350}

WindowEnds == {0, 540, 570, 599, 600, 660, 705, 1439}

InitSlots ==
    /\ NoProgram
    /\ call \in { [professor |-> Professor("P1", <<st, en>>), date |-> d,
                   result |-> <<>>, returned |-> FALSE,
                   date2 |-> d, result2 |-> <<>>, again |-> FALSE] :
                    st \in WindowStarts, en \in WindowEnds, d \in Dates }

\* _build_professor_slots(professor) on the day call.date
BuildCall ==
    /\ ~call.returned
    /\ call' = [call EXCEPT !.result = BuildProfessorSlots(call.professor, call.date),
                            !.returned = TRUE]
    /\ UNCHANGED program

\* the same call once more, on any day
BuildAgain ==
    /\ call.returned
    /\ ~call.again
    /\ \E d \in Dates :
          call' = [call EXCEPT !.result2 = BuildProfessorSlots(call.professor, d),
                               !.date2 = d, !.again = TRUE]
    /\ UNCHANGED program

NextSlots == BuildCall \/ BuildAgain

SpecSlots == InitSlots /\ [][NextSlots]_vars

-----------------------------------------------------------------------------
(* C15 *)

\* floor((end - start) / 1h), 0 for a window that is empty or reversed
WholeHours(start, end) == IF start >= end THEN 0 ELSE (end - start) \div 60

\* the label "HH:MM" of a time of day given in minutes since midnight
TimeLabel(t) ==
    <<DigitChars[(t \div 600) + 1], DigitChars[((t \div 60) % 10) + 1], ":",
      DigitChars[((t % 60) \div 10) + 1], DigitChars[(t % 10) + 1]>>

\* Monday..Friday in that order, and within a day start, start+1h, ...
ExpectedSlots(start, end) ==
    LET n == WholeHours(start, end)
    IN  [k \in 1..(5 * n) |->
           <<Days[((k - 1) \div n) + 1], TimeLabel(start + 60 * ((k - 1) % n))>>]

\* C15: for an office window [start, end] the generated sequence holds, for
\* each of Monday..Friday in that order, the times start, start+1h, ... whose
\* one-hour block ends at or before end; it has 5 * floor((end - start) / 1h)
\* slots, none when start >= end or the window is shorter than one hour, five
\* for a window of exactly one hour, and a second call returns the same.
C15_AvailabilityGenerator ==
    call.returned =>
       LET start == call.professor.office_start
           end == call.professor.office_end
       IN  /\ call.result = ExpectedSlots(start, end)
           /\ Len(call.result) = 5 * WholeHours(start, end)
           /\ (start >= end \/ end - start < 60) => call.result = <<>>
           /\ end - start = 60 => Len(call.result) = 5
           /\ call.again => call.result2 = call.result

\* two calls on different days for the window 09:30-11:45, which holds two
\* whole hours that do not start on the hour
C15_Witness ==
    /\ call.returned
    /\ call.again
    /\ call.date2 # call.date
    /\ call.professor.office_start = 570
    /\ call.professor.office_end = 705
    /\ Len(call.result) = 10
    /\ call.result[2] = <<"Monday", TimeLabel(630)>>

-----------------------------------------------------------------------------
(* C16 *)

\* C16: the assignment list a run returns is in ascending order of assignment
\* identifier (string order): no assignment is followed by one whose identifier
\* is smaller.
C16_FinalizeOrdering ==
    pc = "done" =>
       \A a, b \in DOMAIN schedule_entries :
          a < b => ~StrLess(schedule_entries[b].schedule_id,
                            schedule_entries[a].schedule_id)

\* a returned list of two or more assignments whose order is not the order in
\* which the subjects were processed
C16_Witness ==
    /\ pc = "done"
    /\ Len(schedule_entries) >= 2
    /\ schedule_entries # new_entries
    /\ \E a, b \in DOMAIN schedule_entries :
          /\ a < b
          /\ StrLess(schedule_entries[a].schedule_id, schedule_entries[b].schedule_id)
          /\ schedule_entries[b].subject_code = "SBJ001"

-----------------------------------------------------------------------------
(* The operations on self.subjects *)

\* Python's order on the subject codes of the model ("SBJ001" < "SBJ002" < ...)
CodeRank(code) == CHOOSE k \in DOMAIN SubjectCodes : SubjectCodes[k] = code

CodeLess(a, b) == CodeRank(a) < CodeRank(b)

RECURSIVE InsertSubject(_, _)
\* sort() is stable: x goes before the first element that is strictly greater
InsertSubject(s, x) ==
    IF s = <<>> THEN <<x>>
    ELSE IF CodeLess(x.code, Head(s).code) THEN <<x>> \o s
    ELSE <<Head(s)>> \o InsertSubject(Tail(s), x)

\* a variant that leaves the list as it is
SortSubjectsNone(s) == s

RECURSIVE SortSubjects(_)
\* self.subjects.sort(key=lambda subject: subject.code)
SortSubjects(s) ==
    IF s = <<>> THEN <<>>
    ELSE InsertSubject(SortSubjects(SubSeq(s, 1, Len(s) - 1)), s[Len(s)])

\* the codes the user and the files use
OpCodes == { SubjectCodes[k] : k \in 1..MaxSubjects }

OpProfessors == {"", "P1", "P2"}

\* the rows of a subjects file, in any order; a row may have an empty code
SubjectFiles ==
    { f \in UNION { [1..n -> { Subject(c, "Lecture", 20, "P1") : c \in OpCodes \cup {""} }] :
                      n \in 0..MaxSubjects } :
        \A a, b \in DOMAIN f : (a # b /\ f[a].code # "") => f[a].code # f[b].code }

\* lines 488-519: rows without a code are dropped, the rest is sorted by code
LoadedSubjects(f) == SortSubjects(SelectSeq(f, LAMBDA row : row.code # ""))

\* _load_subjects (also reached from _import_subjects)
LoadSubjects ==
    /\ pc = "idle"
    /\ \E f \in SubjectFiles :
          /\ subjects' = LoadedSubjects(f)
          /\ reordered' = (reordered \/ LoadedSubjects(f) # SelectSeq(f, LAMBDA row : row.code # ""))
    /\ UNCHANGED <<professors, rooms, schedule_entries, today, pc, failure, runLocals,
                   previous, loaded, runNo, out1, call>>

\* _add_subject: the professor id is empty or known, the code is new
AddSubject ==
    /\ pc = "idle"
    /\ \E code \in OpCodes, professor_id \in OpProfessors :
          /\ professor_id = "" \/ KnownProfessor(professors, professor_id)
          /\ ~HasSubject(subjects, code)
          /\ LET appended == Append(subjects, Subject(code, "Lecture", 20, professor_id))
             IN  /\ subjects' = SortSubjects(appended)
                 /\ reordered' = (reordered \/ SortSubjects(appended) # appended)
    /\ UNCHANGED <<professors, rooms, schedule_entries, today, pc, failure, runLocals,
                   previous, loaded, runNo, out1, call>>

\* _edit_subject: the selected row gets new attributes, the code stays
EditSubject ==
    /\ pc = "idle"
    /\ \E row \in DOMAIN subjects, professor_id \in OpProfessors :
          /\ professor_id = "" \/ KnownProfessor(professors, professor_id)
          /\ LET edited == [subjects EXCEPT ![row].professor_id = professor_id]
             IN  /\ subjects' = SortSubjects(edited)
                 /\ reordered' = (reordered \/ SortSubjects(edited) # edited)
    /\ UNCHANGED <<professors, rooms, schedule_entries, today, pc, failure, runLocals,
                   previous, loaded, runNo, out1, call>>

\* _delete_subject: del self.subjects[row]
DeleteSubject ==
    /\ pc = "idle"
    /\ \E row \in DOMAIN subjects :
          subjects' = SubSeq(subjects, 1, row - 1) \o SubSeq(subjects, row + 1, Len(subjects))
    /\ UNCHANGED <<professors, rooms, schedule_entries, today, pc, failure, runLocals,
                   previous, history, call>>

InitOps ==
    /\ professors = <<Professor("P1", TwoHours), Professor("P2", OneHour)>>
    /\ rooms = <<Room("R1", 50, "Lecture")>>
    /\ subjects \in { LoadedSubjects(f) : f \in SubjectFiles }
    /\ schedule_entries \in
          EntryLists(EntryChoices("SBJ003", SCH(1), {"", "R2"},
                                  {<<"", NoTime>>, <<"Monday", T0900>>}), {})
    /\ today = 1
    /\ InitRun

NextOps ==
    LoadSubjects \/ AddSubject \/ EditSubject \/ DeleteSubject \/ Begin \/ ProcessSubject \/ Finish

SpecOps == InitOps /\ [][NextOps]_vars

-----------------------------------------------------------------------------
(* C17 *)

\* the log records of the subjects that were assigned before the subject of rec
\* and have a smaller code
ServedBefore(rec) ==
    { q \in DOMAIN log : /\ log[q].outcome = "assigned"
                         /\ CodeLess(log[q].code, rec.code) }

\* C17: whatever load, add, edit and delete operations came before the run,
\* the loop processes the eligible subjects in ascending order of subject code,
\* and the professor slots and room slots a subject finds consumed are exactly
\* those of the assigned subjects with a smaller code.
C17_ProcessingOrder ==
    /\ \A a, b \in DOMAIN eligible_subjects :
          a < b => CodeLess(eligible_subjects[a].code, eligible_subjects[b].code)
    /\ \A r, q \in DOMAIN log : r < q => CodeLess(log[r].code, log[q].code)
    /\ \A r \in DOMAIN log :
          /\ log[r].used_prof =
                { <<log[q].professor_id, log[q].slot[1], log[q].slot[2]>> :
                    q \in ServedBefore(log[r]) }
          /\ log[r].used_room =
                { <<log[q].room_number, log[q].slot[1], log[q].slot[2]>> :
                    q \in ServedBefore(log[r]) }

\* after an operation whose sort changed the order of the list, two subjects
\* wanted room R1 on Monday 09:00 and two subjects of one professor wanted the
\* same first slot: each time the smaller code was served
C17_Witness ==
    /\ pc = "done"
    /\ reordered
    /\ \E r, q \in DOMAIN log :
          /\ CodeLess(log[r].code, log[q].code)
          /\ log[r].outcome = "assigned"
          /\ log[q].slot = log[r].slot
          /\ log[q].outcome = "no_room"
    /\ \E r, q \in DOMAIN log :
          /\ CodeLess(log[r].code, log[q].code)
          /\ log[r].professor_id = log[q].professor_id
          /\ log[r].outcome = "assigned" /\ log[q].outcome = "assigned"
          /\ log[r].slot = Availability(log[r].professor_id)[1]
          /\ log[q].slot = Availability(log[r].professor_id)[2]

-----------------------------------------------------------------------------
(* C18 *)

\* the k-th slot of the professor's availability is free for the subject of rec
FreeSlotAt(rec, k) ==
    <<rec.professor_id, Availability(rec.professor_id)[k][1],
      Availability(rec.professor_id)[k][2]>> \notin rec.used_prof

\* how many subjects of the same professor the loop processed up to rec
RankWithProfessor(r) ==
    Cardinality({ q \in 1..r : log[q].professor_id = log[r].professor_id })

\* C18: a processed subject to which the stability preference does not apply
\* and whose professor has an unconsumed slot gets the earliest unconsumed slot
\* of the professor's availability sequence; and in a run without previous
\* assignments in which no subject lacked a room, the k-th subject of a
\* professor is assigned the k-th slot of the professor's sequence.
C18_FirstFit ==
    /\ \A r \in DOMAIN log :
          (/\ ~SlotPreferenceApplies(log[r])
           /\ \E k \in DOMAIN Availability(log[r].professor_id) : FreeSlotAt(log[r], k))
          => /\ Resolved(log[r])
             /\ \E k \in DOMAIN Availability(log[r].professor_id) :
                   /\ log[r].slot = Availability(log[r].professor_id)[k]
                   /\ FreeSlotAt(log[r], k)
                   /\ \A j \in 1..(k - 1) : ~FreeSlotAt(log[r], j)
    /\ (previous = <<>> /\ skipped_no_room = <<>>) =>
          \A r \in DOMAIN log :
             RankWithProfessor(r) <= Len(Availability(log[r].professor_id))
             => /\ log[r].outcome = "assigned"
                /\ log[r].slot = Availability(log[r].professor_id)[RankWithProfessor(r)]

\* a subject whose previous slot had been consumed by an earlier subject of its
\* professor moved to the second slot of the sequence, and a later subject of
\* that professor took the third
C18_Witness ==
    /\ pc = "done"
    /\ \E r, q \in DOMAIN log :
          /\ r < q
          /\ log[r].professor_id = log[q].professor_id
          /\ log[r].prev.day # "" /\ log[r].prev.time # NoTime
          /\ SlotOf(log[r].prev) = Availability(log[r].professor_id)[1]
          /\ ~FreeSlotAt(log[r], 1)
          /\ log[r].outcome = "assigned"
          /\ log[r].slot = Availability(log[r].professor_id)[2]
          /\ log[q].outcome = "assigned"
          /\ log[q].slot = Availability(log[r].professor_id)[3]

-----------------------------------------------------------------------------
(* C19 *)

\* the rooms of one group of the room index that are free for the subject of rec
FreeInGroup(rec, room_type) ==
    { k \in DOMAIN RoomsOfType(RoomsByType(rooms), room_type) :
        <<RoomsOfType(RoomsByType(rooms), room_type)[k].number, rec.slot[1], rec.slot[2]>>
           \notin rec.used_room }

\* the candidate types of the subject of rec: its required type, then the others
TypesFor(rec) == CandidateTypes(RequiredType(rec), RoomsByType(rooms))

\* C19: a subject that is assigned without keeping its previous room gets a
\* room of the first candidate type (its required type first) that has a room
\* free at the slot, even when the rooms of sufficient capacity of that type are
\* all consumed there; in that case it is the first free room of the type in
\* ascending capacity.
C19_TypeFallback ==
    \A r \in DOMAIN log :
       (/\ log[r].outcome = "assigned"
        /\ PreviousRoomNotKept(log[r])
        /\ \E k \in DOMAIN rooms : FreeAt(log[r], k))
       => \E t \in DOMAIN TypesFor(log[r]) :
             /\ FreeInGroup(log[r], TypesFor(log[r])[t]) # {}
             /\ \A u \in 1..(t - 1) : FreeInGroup(log[r], TypesFor(log[r])[u]) = {}
             /\ \E k \in FreeInGroup(log[r], TypesFor(log[r])[t]) :
                   RoomsOfType(RoomsByType(rooms), TypesFor(log[r])[t])[k].number
                      = log[r].room_number

-----------------------------------------------------------------------------
(* C20 *)

\* used_prof_slots and used_room_slots as the r-th processed subject left them
UsedAfter(r) ==
    IF r = Len(log)
    THEN [prof |-> used_prof_slots, room |-> used_room_slots]
    ELSE [prof |-> log[r + 1].used_prof, room |-> log[r + 1].used_room]

\* C20: a subject that is skipped for want of a room leaves the consumed
\* (professor, day, time) triples and the consumed (room, day, time) triples as
\* it found them, and the slot that was resolved for it is still unconsumed for
\* its professor.
C20_SlotCommittedWithRoom ==
    pc = "loop" =>
       \A r \in DOMAIN log :
          log[r].outcome = "no_room" =>
             /\ UsedAfter(r).prof = log[r].used_prof
             /\ UsedAfter(r).room = log[r].used_room
             /\ <<log[r].professor_id, log[r].slot[1], log[r].slot[2]>> \notin UsedAfter(r).prof

\* a subject was skipped for want of a room at a slot, and a later subject of
\* the same professor was assigned that very slot
C20_Witness ==
    /\ pc = "done"
    /\ \E r, q \in DOMAIN log :
          /\ r < q
          /\ log[r].outcome = "no_room"
          /\ log[q].professor_id = log[r].professor_id
          /\ log[q].outcome = "assigned"
          /\ log[q].slot = log[r].slot

-----------------------------------------------------------------------------
(* C21 *)

\* the subject of rec went through lines 802-813 with a previous identifier
HasPreviousId(rec) == rec.prev.schedule_id # NoId

\* the processed subjects to which the loop gave an identifier of the allocator
Allocated(r) == log[r].outcome # "no_pool" /\ ~HasPreviousId(log[r])

\* the non-empty identifiers of the previous list, then the identifiers the
\* loop allocated before it came to the r-th processed subject
SeedFor(r) ==
    LET kept == SelectSeq(previous, LAMBDA e : e.schedule_id # NoId)
        earlier == SelectSeq([q \in 1..(r - 1) |-> q], Allocated)
    IN  [k \in DOMAIN kept |-> kept[k].schedule_id]
        \o [k \in DOMAIN earlier |-> log[earlier[k]].schedule_id]

\* C21: an assigned subject whose previous assignment has a non-empty
\* identifier carries exactly that identifier in the output; an assigned subject
\* without previous assignment, or with an empty previous identifier, carries
\* the identifier the allocator returns for the previous identifiers plus the
\* identifiers allocated earlier in the run.
C21_IdentifierCarryForward ==
    \A r \in DOMAIN log :
       log[r].outcome = "assigned" =>
          /\ log[r].schedule_id =
                IF HasPreviousId(log[r]) THEN log[r].prev.schedule_id
                ELSE SuggestIdentifier(SeedFor(r), SchedulePrefix, ScheduleDigits)
          /\ EntriesOf(Accepted, log[r].code) # {}
          /\ \A k \in EntriesOf(Accepted, log[r].code) :
                Accepted[k].schedule_id = log[r].schedule_id

\* one subject kept a previous identifier and two others got fresh ones, the
\* second of them after the first had been folded back
C21_Witness ==
    /\ pc = "done"
    /\ \E a, b, c \in DOMAIN log :
          /\ log[a].outcome = "assigned" /\ HasPreviousId(log[a])
          /\ log[b].outcome = "assigned" /\ ~HasPreviousId(log[b])
          /\ log[c].outcome = "assigned" /\ ~HasPreviousId(log[c])
          /\ b < c
          /\ log[b].schedule_id # log[c].schedule_id
          /\ log[b].schedule_id # SCH(1)

-----------------------------------------------------------------------------
(* C22 *)

\* the identifier consists of the prefix followed by exactly `digits` digits
HasForm(value, prefix, digits) ==
    /\ Len(value) = Len(prefix) + digits
    /\ \A k \in 1..Len(prefix) : value[k] = prefix[k]
    /\ \A k \in (Len(prefix) + 1)..Len(value) : value[k] \in SeqToSet(DigitChars)

\* the largest numeric suffix among the identifiers of that form, 0 for none
LargestSuffix(existing, prefix, digits) ==
    LET suffixes == { ParseInt(SubSeq(existing[k], Len(prefix) + 1, Len(existing[k]))) :
                        k \in { j \in DOMAIN existing : HasForm(existing[j], prefix, digits) } }
    IN  IF suffixes = {} THEN 0
        ELSE CHOOSE m \in suffixes : \A x \in suffixes : x <= m

\* n in decimal, with zeros in front up to the width
Padded(n, width) ==
    [k \in 1..(width - Len(DigitsOf(n))) |-> "0"] \o DigitsOf(n)

\* C22: the allocator returns the prefix followed by m + 1 padded with zeros to
\* the digit width, m being the largest numeric suffix among the existing
\* identifiers made of the prefix and exactly that many digits (0 if there is
\* none); the identifiers of any other form do not influence the result.
C22_AllocatorResult ==
    call.returned =>
       /\ call.result =
             call.prefix
             \o Padded(LargestSuffix(call.existing, call.prefix, call.digits) + 1, call.digits)
       /\ call.result =
             SuggestIdentifier(SelectSeq(call.existing,
                                         LAMBDA v : HasForm(v, call.prefix, call.digits)),
                               call.prefix, call.digits)

\* the existing identifiers hold SCH998 and the four-digit SCH1000, and the
\* allocator returned SCH999
C22_Witness ==
    /\ call.returned
    /\ call.prefix = SchedulePrefix
    /\ call.digits = 3
    /\ SCH(998) \in SeqToSet(call.existing)
    /\ SCH(1000) \in SeqToSet(call.existing)
    /\ call.result = SCH(999)

-----------------------------------------------------------------------------
(* C23 *)

\* the room index of the run in progress (lines 776-779)
RoomIndex == RoomsByType(rooms)

\* the key a room belongs under: its format tag, "Unspecified" for an empty tag
GroupKeyOf(room) == IF room.lec_sem = "" THEN "Unspecified" ELSE room.lec_sem

\* C23: once a run has built the room index, every room is in the group of its
\* format type (rooms with an empty tag in the group "Unspecified") and in no
\* other, no key occurs twice, and within every group the rooms are in
\* ascending order of capacity and then of room number.
C23_RoomIndexOrdering ==
    pc \in {"loop", "done"} =>
       /\ \A g, h \in DOMAIN RoomIndex : RoomIndex[g].key = RoomIndex[h].key => g = h
       /\ \A k \in DOMAIN rooms :
             \E g \in DOMAIN RoomIndex :
                /\ RoomIndex[g].key = GroupKeyOf(rooms[k])
                /\ rooms[k] \in SeqToSet(RoomIndex[g].rooms)
       /\ \A g \in DOMAIN RoomIndex :
             /\ Len(RoomIndex[g].rooms) =
                   Cardinality({ k \in DOMAIN rooms : GroupKeyOf(rooms[k]) = RoomIndex[g].key })
             /\ \A a, b \in DOMAIN RoomIndex[g].rooms :
                   a < b => SmallerRoom(RoomIndex[g].rooms[a], RoomIndex[g].rooms[b])

-----------------------------------------------------------------------------
(* C24 *)

\* the run passed the checks of lines 750-774 and has ended
RunEnded ==
    /\ pc \in {"done", "failed"}
    /\ failure \in {"", "NO_ASSIGNMENTS_PRODUCED"}

\* the office window of the professor holds no whole hour, so that the
\* availability sequence is empty
NoWholeHour(prof_id) ==
    ProfessorById(professors, prof_id).office_start + 60
       > ProfessorById(professors, prof_id).office_end

\* the run ended without assignments and left the stored schedule alone
FailedEmpty ==
    /\ pc = "failed"
    /\ failure = "NO_ASSIGNMENTS_PRODUCED"
    /\ new_entries = <<>>
    /\ schedule_entries = previous

\* C24: a run that passed the input checks ends without assignments, failing
\* and leaving the stored schedule as it was, exactly when the professor of
\* every eligible subject has an empty availability sequence; otherwise it
\* returns at least one assignment.
C24_ZeroAssignmentFailure ==
    RunEnded =>
       /\ FailedEmpty <=>
             \A k \in DOMAIN eligible_subjects : NoWholeHour(eligible_subjects[k].professor_id)
       /\ ~FailedEmpty => (pc = "done" /\ schedule_entries # <<>>)

\* a run over two eligible subjects with previous assignments ended without
\* any assignment
C24_Witness ==
    /\ FailedEmpty
    /\ Len(log) >= 2
    /\ \E k \in DOMAIN previous :
          /\ previous[k].subject_code = log[1].code
          /\ previous[k].day # ""
          /\ previous[k].room_number # ""

-----------------------------------------------------------------------------
(* C25 *)

\* the one slot at which the subject of rec is tried: its previous slot when
\* the stability preference applies, else the earliest unconsumed slot of its
\* professor's availability sequence
TriedSlot(rec) ==
    IF SlotPreferenceApplies(rec) THEN SlotOf(rec.prev)
    ELSE Availability(rec.professor_id)[
            CHOOSE k \in DOMAIN Availability(rec.professor_id) :
               /\ FreeSlotAt(rec, k)
               /\ \A j \in 1..(k - 1) : ~FreeSlotAt(rec, j)]

\* the subject of rec has no previous room and every room is consumed at the slot
NoRoomAt(rec) ==
    /\ rec.prev.room_number = ""
    /\ \A k \in DOMAIN rooms : ~FreeAt(rec, k)

\* a slot of the professor after the tried one is unconsumed for the professor
\* and has a free room
LaterSlotWithRoom(rec) ==
    \E k, t \in DOMAIN Availability(rec.professor_id) :
       /\ Availability(rec.professor_id)[t] = rec.slot
       /\ t < k
       /\ FreeSlotAt(rec, k)
       /\ \E j \in DOMAIN rooms :
             <<rooms[j].number, Availability(rec.professor_id)[k][1],
               Availability(rec.professor_id)[k][2]>> \notin rec.used_room

\* C25: every subject is processed once and tried at one slot only, the slot
\* that the stability preference or first fit gives it; when no room is found
\* at that slot the subject is skipped under NO_AVAILABLE_ROOM and gets no
\* assignment, whatever rooms are free at the other slots of its professor; an
\* assigned subject is assigned at that slot.
C25_NoBacktracking ==
    /\ Len(log) <= Len(eligible_subjects)
    /\ \A r \in DOMAIN log : log[r].code = eligible_subjects[r].code
    /\ \A r \in DOMAIN log :
          Resolved(log[r]) =>
             /\ log[r].slot = TriedSlot(log[r])
             /\ \A a \in EntriesOf(Accepted, log[r].code) :
                   SlotOf(Accepted[a]) = log[r].slot
             /\ NoRoomAt(log[r]) => log[r].outcome = "no_room"
             /\ log[r].outcome = "no_room" =>
                   /\ log[r].code \in SeqToSet(skipped_no_room)
                   /\ EntriesOf(Accepted, log[r].code) = {}

\* a subject was skipped for want of a room at its slot although a later slot
\* of its professor was unconsumed and had a free room
C25_Witness ==
    \E r \in DOMAIN log :
       /\ log[r].outcome = "no_room"
       /\ NoRoomAt(log[r])
       /\ LaterSlotWithRoom(log[r])
       /\ log[r].code \in SeqToSet(skipped_no_room)

-----------------------------------------------------------------------------
(* C26 *)

\* the keys of the room index other than the required type, in the index's order
OtherKeys(rec) ==
    SelectSeq([g \in DOMAIN RoomIndex |-> RoomIndex[g].key],
              LAMBDA key : key # RequiredType(rec))

\* the order in which the types are tried for the subject of rec
TypeOrder(rec) ==
    IF RequiredType(rec) = "" THEN OtherKeys(rec)
    ELSE <<RequiredType(rec)>> \o OtherKeys(rec)

\* the rooms grouped under a type that are tried for the subject of rec: those
\* of sufficient capacity, or all of them when none is large enough
TriedOfType(rec, room_type) ==
    LET grouped == { k \in DOMAIN rooms : GroupKeyOf(rooms[k]) = room_type }
        large == { k \in grouped : rooms[k].capacity >= RequiredCapacity(rec) }
    IN  IF large = {} THEN grouped ELSE large

\* a room was returned for the type: one of the rooms tried for it is free
ReturnsRoom(rec, room_type) ==
    \E k \in TriedOfType(rec, room_type) : FreeAt(rec, k)

\* the room given to the subject of rec
GivenRoom(rec) == CHOOSE k \in DOMAIN rooms : rooms[k].number = rec.room_number

\* C26: when a subject is assigned without keeping its previous room and some
\* room is free at its slot, the types are tried with the required type first
\* (if non-empty) and then the other keys of the room index in the index's
\* order: if some type returns a room, the given room is a room tried for the
\* first such type, and a room of a type other than the required one is given
\* only when the required type returned none.
C26_CandidateTypeOrder ==
    \A r \in DOMAIN log :
       (/\ log[r].outcome = "assigned"
        /\ PreviousRoomNotKept(log[r])
        /\ \E k \in DOMAIN rooms : FreeAt(log[r], k))
       => /\ \A t \in DOMAIN TypeOrder(log[r]) :
                (/\ ReturnsRoom(log[r], TypeOrder(log[r])[t])
                 /\ \A u \in 1..(t - 1) : ~ReturnsRoom(log[r], TypeOrder(log[r])[u]))
                => /\ GivenRoom(log[r]) \in TriedOfType(log[r], TypeOrder(log[r])[t])
                   /\ FreeAt(log[r], GivenRoom(log[r]))
          /\ GroupKeyOf(rooms[GivenRoom(log[r])]) # RequiredType(log[r])
                => ~ReturnsRoom(log[r], RequiredType(log[r]))

\* a subject was given a room of its required type although a free room of a
\* type that comes earlier in the room index would have held it; and another
\* subject was given a room of another type after its required type returned none
C26_Witness ==
    /\ \E r \in DOMAIN log :
          /\ log[r].outcome = "assigned"
          /\ PreviousRoomNotKept(log[r])
          /\ RequiredType(log[r]) # ""
          /\ GroupKeyOf(rooms[GivenRoom(log[r])]) = RequiredType(log[r])
          /\ RoomIndex[1].key # RequiredType(log[r])
          /\ ReturnsRoom(log[r], RoomIndex[1].key)
    /\ \E r \in DOMAIN log :
          /\ log[r].outcome = "assigned"
          /\ PreviousRoomNotKept(log[r])
          /\ RequiredType(log[r]) # ""
          /\ GroupKeyOf(rooms[GivenRoom(log[r])]) # RequiredType(log[r])
          /\ \E k \in DOMAIN rooms : GroupKeyOf(rooms[k]) = RequiredType(log[r])

-----------------------------------------------------------------------------
(* C27 *)

\* the (professor, day, time) triples of the assignments accepted so far
AcceptedProfSlots == { ProfSlotOf(new_entries[k]) : k \in DOMAIN new_entries }

\* the (room, day, time) triples of the assignments accepted so far
AcceptedRoomSlots == { RoomSlotOf(new_entries[k]) : k \in DOMAIN new_entries }

\* C27: after each processed subject, the consumed (professor, day, time)
\* triples are exactly those of the assignments accepted so far and the
\* consumed (room, day, time) triples are exactly those of the assignments
\* accepted so far; an assigned subject leaves its two triples in the sets and
\* nothing else, and a skipped subject leaves both sets as it found them.
C27_ConflictSetsMirrorOutput ==
    pc \in {"loop", "done"} =>
       /\ used_prof_slots = AcceptedProfSlots
       /\ used_room_slots = AcceptedRoomSlots
       /\ \A r \in DOMAIN log :
             IF log[r].outcome = "assigned"
             THEN /\ UsedAfter(r).prof = log[r].used_prof \cup
                        {<<log[r].professor_id, log[r].slot[1], log[r].slot[2]>>}
                  /\ UsedAfter(r).room = log[r].used_room \cup
                        {<<log[r].room_number, log[r].slot[1], log[r].slot[2]>>}
             ELSE /\ UsedAfter(r).prof = log[r].used_prof
                  /\ UsedAfter(r).room = log[r].used_room

\* a subject kept its previous room, another was skipped for want of a room and
\* a third was given a room by the search, and two triples of each kind are
\* consumed
C27_Witness ==
    /\ pc = "loop"
    /\ Cardinality(used_prof_slots) = 2
    /\ Cardinality(used_room_slots) = 2
    /\ \E r, q, w \in DOMAIN log :
          /\ log[r].outcome = "assigned"
          /\ log[r].room_number = log[r].prev.room_number
          /\ log[q].outcome = "no_room"
          /\ log[w].outcome = "assigned"
          /\ log[w].prev.room_number = ""

-----------------------------------------------------------------------------
(* C28 *)

RoomNumbers == { rooms[k].number : k \in DOMAIN rooms }

\* C28: every assignment accepted by the run, and every assignment of the
\* stored output, names a room of the current room collection.
C28_RoomExists ==
    \A a \in DOMAIN Accepted : Accepted[a].room_number \in RoomNumbers

-----------------------------------------------------------------------------
(* C29 *)

\* C29: every assignment accepted by the run, and every assignment of the
\* stored output, has a (day, time) that is in the availability sequence that
\* this run computed for the professor of the assignment.
C29_WithinOfficeWindow ==
    \A a \in DOMAIN Accepted :
       SlotOf(Accepted[a]) \in SeqToSet(Availability(Accepted[a].professor_id))

\* a subject whose previous entry names a slot outside the office window of its
\* professor was assigned, at a slot of the window
C29_Witness ==
    /\ pc = "done"
    /\ \E r \in DOMAIN log :
          /\ log[r].prev.day # "" /\ log[r].prev.time # NoTime
          /\ SlotOf(log[r].prev) \notin SeqToSet(Availability(log[r].professor_id))
          /\ log[r].outcome = "assigned"
          /\ \E a \in EntriesOf(schedule_entries, log[r].code) :
                /\ SlotOf(schedule_entries[a]) = log[r].slot
                /\ SlotOf(schedule_entries[a]) # SlotOf(log[r].prev)

-----------------------------------------------------------------------------
(* C30 *)

\* the subject of the current collection that an assignment is for: it exists,
\* is eligible in this run and is linked to the professor the assignment names
SubjectsFor(e) ==
    { k \in DOMAIN subjects :
        /\ subjects[k].code = e.subject_code
        /\ ~Unlinked(subjects[k])
        /\ subjects[k].professor_id = e.professor_id }

\* the codes of the subjects that are eligible in this run
EligibleCodes ==
    { subjects[k].code : k \in { j \in DOMAIN subjects : ~Unlinked(subjects[j]) } }

\* C30: every assignment accepted by the run, and every assignment of the
\* stored output, carries the code of an existing subject that is eligible in
\* this run and the identifier of the professor that subject is linked to; and
\* no previous assignment of a subject that is missing or ineligible is in the
\* output.
C30_CurrentSubjectAndProfessor ==
    /\ \A a \in DOMAIN Accepted : SubjectsFor(Accepted[a]) # {}
    /\ pc = "done" =>
          \A p \in DOMAIN previous :
             previous[p].subject_code \notin EligibleCodes
             => EntriesOf(schedule_entries, previous[p].subject_code) = {}

\* a subject whose previous assignment named another professor was assigned to
\* its current professor, and the previous assignment of a subject that is no
\* longer eligible is not in the output
C30_Witness ==
    /\ pc = "done"
    /\ \E r \in DOMAIN log :
          /\ log[r].prev # NoEntry
          /\ log[r].prev.professor_id # log[r].professor_id
          /\ log[r].outcome = "assigned"
          /\ \E a \in EntriesOf(schedule_entries, log[r].code) :
                schedule_entries[a].professor_id = log[r].professor_id
    /\ \E p \in DOMAIN previous : previous[p].subject_code \notin EligibleCodes

====
